---- MODULE Spec2Model ----
(***************************************************************************)
(* Walker-Vose alias tables (src/src/lib.rs).                              *)
(*                                                                         *)
(* AliasTable::from_iter builds the table, AliasTable::pick samples it,    *)
(* AliasTableIterator::next samples it through an owned random source.     *)
(*                                                                         *)
(* The probability type F of the source is generic.  The model carries it  *)
(* as the variable arith:                                                  *)
(*   "exact"  every operation on finite values yields the exact rational;  *)
(*   "float"  every operation rounds to a binary floating-point format of  *)
(*            MantBits significand bits, quantum 2^-MinExpNeg and largest  *)
(*            finite value (2^MantBits - 1) * 2^MaxExp, ties to even,      *)
(*            overflow to infinity.                                        *)
(* In both, F is a Float: x/0 is an infinity or NaN and never traps.       *)
(***************************************************************************)
EXTENDS Integers, Sequences, FiniteSets, TLC

VARIABLES
    arith,   \* the arithmetic of F: "exact" or "float"
    objs,    \* the items, in input order (AliasTable.objs)
    ps,      \* the weights, in input order
    pc,      \* "start", "loop" (line 105), "ready" (table returned), "panic"
    small,   \* stack of <<index, probability>> with probability < 1
    large,   \* stack of <<index, probability>> of the others
    table,   \* Vec<AliasEntry<F>>
    iters,   \* number of iterations of the pairing loop so far
    range,   \* AliasTable.range as <<low, high>>, <<>> before construction
    float,   \* AliasTable.float as <<low, high>>, <<>> before construction
    it,      \* the AliasTableIterator, NoIter before iter()
    last     \* what the most recent call of pick did, NoPick before it

vars == <<arith, objs, ps, pc, small, large, table, iters, range, float, it, last>>

(* ------------------------------ bounds --------------------------------- *)
MaxN == 3
MaxTake == 2
MantBits == 4
MinExpNeg == 8
MaxExp == 3

(* --------------------- values of the type F ---------------------------- *)
(* A finite value is <<n, d>> in lowest terms with d > 0; the three        *)
(* non-finite values of a Float have d = 0.                                *)
NaN == <<0, 0>>
Inf == <<1, 0>>
NegInf == <<-1, 0>>
Zero == <<0, 1>>
One == <<1, 1>>

Abs(n) == IF n < 0 THEN -n ELSE n

RECURSIVE GCD(_, _)
GCD(a, b) == IF b = 0 THEN a ELSE GCD(b, a % b)

RECURSIVE Pow2(_)
Pow2(k) == IF k <= 0 THEN 1 ELSE 2 * Pow2(k - 1)

Norm(n, d) ==
    LET s == IF d < 0 THEN -1 ELSE 1
        g == GCD(Abs(n), Abs(d))
    IN  <<(s * n) \div g, (s * d) \div g>>

IsFinite(x) == x[2] # 0

(* 2^k as a value, k any integer *)
Pow2R(k) == IF k >= 0 THEN <<Pow2(k), 1>> ELSE <<1, Pow2(-k)>>

QAdd(a, b) == Norm(a[1] * b[2] + b[1] * a[2], a[2] * b[2])
QSub(a, b) == Norm(a[1] * b[2] - b[1] * a[2], a[2] * b[2])
QMul(a, b) == Norm(a[1] * b[1], a[2] * b[2])
QDiv(a, b) == Norm(a[1] * b[2], a[2] * b[1])
QLt(a, b) == a[1] * b[2] < b[1] * a[2]

MaxFinite == QMul(<<Pow2(MantBits) - 1, 1>>, Pow2R(MaxExp))

(* the exponent of the quantum of q > 0: the least e >= -MinExpNeg with    *)
(* q < 2^MantBits * 2^e                                                    *)
RECURSIVE QuantumExp(_, _)
QuantumExp(q, e) ==
    IF QLt(q, Pow2R(MantBits + e)) THEN e ELSE QuantumExp(q, e + 1)

(* round-to-nearest, ties to even, of a finite q > 0 *)
RoundPos(q) ==
    LET e == QuantumExp(q, -MinExpNeg)
        x == QDiv(q, Pow2R(e))
        m == x[1] \div x[2]
        r2 == 2 * (x[1] - m * x[2])
        up == r2 > x[2] \/ (r2 = x[2] /\ m % 2 = 1)
        v == QMul(<<IF up THEN m + 1 ELSE m, 1>>, Pow2R(e))
    IN  IF QLt(MaxFinite, v) THEN Inf ELSE v

RoundFloat(q) ==
    IF q[1] = 0 THEN Zero
    ELSE IF q[1] > 0 THEN RoundPos(q)
    ELSE LET v == RoundPos(<<-q[1], q[2]>>) IN <<-v[1], v[2]>>

Round(mode, q) == IF mode = "exact" THEN q ELSE RoundFloat(q)

(* ------------------- operations of the type F -------------------------- *)
Sign(x) == IF x[1] < 0 THEN -1 ELSE 1
Neg(x) == <<-x[1], x[2]>>
Signed(s, x) == IF s < 0 THEN Neg(x) ELSE x

(* a + b *)
FAdd(a, b) ==
    IF a = NaN \/ b = NaN THEN NaN
    ELSE IF ~IsFinite(a) THEN (IF ~IsFinite(b) /\ b # a THEN NaN ELSE a)
    ELSE IF ~IsFinite(b) THEN b
    ELSE Round(arith, QAdd(a, b))

(* a - b *)
FSub(a, b) == FAdd(a, Neg(b))

(* a * b *)
FMul(a, b) ==
    IF a = NaN \/ b = NaN THEN NaN
    ELSE IF ~IsFinite(a) \/ ~IsFinite(b)
         THEN (IF a = Zero \/ b = Zero THEN NaN
               ELSE Signed(Sign(a) * Sign(b), Inf))
    ELSE Round(arith, QMul(a, b))

(* a / b *)
FDiv(a, b) ==
    IF a = NaN \/ b = NaN THEN NaN
    ELSE IF ~IsFinite(a)
         THEN (IF ~IsFinite(b) THEN NaN ELSE Signed(Sign(a) * Sign(b), Inf))
    ELSE IF ~IsFinite(b) THEN Zero
    ELSE IF b = Zero THEN (IF a = Zero THEN NaN ELSE Signed(Sign(a), Inf))
    ELSE Round(arith, QDiv(a, b))

(* a < b; every comparison with NaN is false *)
FLt(a, b) ==
    IF a = NaN \/ b = NaN THEN FALSE
    ELSE IF IsFinite(a) /\ IsFinite(b) THEN QLt(a, b)
    ELSE a # b /\ (a = NegInf \/ b = Inf)

(* F::from(n) for a usize n *)
FromUsize(n) == Round(arith, <<n, 1>>)

(* --------------------------- the inputs -------------------------------- *)
(* the weights an input draws from: zero, the weights of the documented    *)
(* examples, one that does not divide exactly, and the least positive      *)
(* value of the floating-point format                                      *)
Weights == {Zero, One, <<3, 1>>, <<7, 1>>, Pow2R(-MinExpNeg)}

(* the items T of an input, all distinct *)
ItemNames == <<"a", "b", "c", "d", "e", "f">>

(* ------------------------- AliasEntry<F> ------------------------------- *)
Aliased(t, v, a) == [tag |-> "Aliased", threshold |-> t, value |-> v, alias |-> a]
Unaliased(i) == [tag |-> "Unaliased", idx |-> i]

(* ---------------------- AliasTable::from_iter -------------------------- *)
(* ps.iter().cloned().sum(): a left fold from zero *)
RECURSIVE SumTo(_, _)
SumTo(w, k) == IF k = 0 THEN Zero ELSE FAdd(SumTo(w, k - 1), w[k])

Psum(w) == SumTo(w, Len(w))

Pcoeff(w) == FDiv(FromUsize(Len(w)), Psum(w))

(* ps.into_iter().map(|p| pcoeff * p).enumerate() *)
(* variant: the index of an item counted from one *)
RECURSIVE ScaledToOneBased(_, _, _)
ScaledToOneBased(w, pcoeff, k) ==
    IF k = 0 THEN <<>>
    ELSE Append(ScaledToOneBased(w, pcoeff, k - 1), <<k, FMul(pcoeff, w[k])>>)

RECURSIVE ScaledTo(_, _, _)
ScaledTo(w, pcoeff, k) ==
    IF k = 0 THEN <<>>
    ELSE Append(ScaledTo(w, pcoeff, k - 1), <<k - 1, FMul(pcoeff, w[k])>>)

Scaled(w) == ScaledTo(w, Pcoeff(w), Len(w))

IsSmall(e) == FLt(e[2], One)
NotSmall(e) == ~IsSmall(e)

PartitionSmall(w) == SelectSeq(Scaled(w), IsSmall)
PartitionLarge(w) == SelectSeq(Scaled(w), NotSmall)

Last(s) == s[Len(s)]
Pop(s) == SubSeq(s, 1, Len(s) - 1)

(* variant: the mass of the small item is not carried over *)
LeftoverForgetsSmall(p_g, p_l) == FSub(p_g, One)

(* (p_g + p_l) - F::one() *)
Leftover(p_g, p_l) == FSub(FAdd(p_g, p_l), One)

(* variant: the last entry of a stack is not flushed *)
FlushAllButLast(s) == [i \in 1..(Len(s) - 1) |-> Unaliased(s[i][1])]

(* large.iter().map(|&(g, _)| Unaliased(g)) *)
Flush(s) == [i \in 1..Len(s) |-> Unaliased(s[i][1])]

(* lines 93-102: unzip, sum, scale, partition *)
FromIterBegin ==
    /\ pc = "start"
    /\ small' = PartitionSmall(ps)
    /\ large' = PartitionLarge(ps)
    /\ table' = <<>>
    /\ pc' = "loop"
    /\ UNCHANGED <<arith, objs, ps, iters, range, float, it, last>>

(* variant: value and alias of the emitted entry exchanged *)
PairStepSwapped ==
    /\ pc = "loop"
    /\ ~(small = <<>> \/ large = <<>>)
    /\ LET l == Last(small)[1]
           p_l == Last(small)[2]
           g == Last(large)[1]
           p_g == Leftover(Last(large)[2], p_l)
       IN  /\ table' = Append(table, Aliased(p_l, g, l))
           /\ IF FLt(p_g, One)
              THEN /\ small' = Append(Pop(small), <<g, p_g>>)
                   /\ large' = Pop(large)
              ELSE /\ small' = Pop(small)
                   /\ large' = Append(Pop(large), <<g, p_g>>)
    /\ iters' = iters + 1
    /\ UNCHANGED <<arith, objs, ps, pc, range, float, it, last>>

(* variant: the large entry is read without being popped *)
PairStepKeepsLarge ==
    /\ pc = "loop"
    /\ ~(small = <<>> \/ large = <<>>)
    /\ LET l == Last(small)[1]
           p_l == Last(small)[2]
           g == Last(large)[1]
           p_g == Leftover(Last(large)[2], p_l)
       IN  /\ table' = Append(table, Aliased(p_l, l, g))
           /\ IF FLt(p_g, One)
              THEN /\ small' = Append(Pop(small), <<g, p_g>>)
                   /\ large' = large
              ELSE /\ small' = Pop(small)
                   /\ large' = Append(large, <<g, p_g>>)
    /\ iters' = iters + 1
    /\ UNCHANGED <<arith, objs, ps, pc, range, float, it, last>>

(* lines 105-123: one iteration of the pairing loop *)
PairStep ==
    /\ pc = "loop"
    /\ ~(small = <<>> \/ large = <<>>)
    /\ LET l == Last(small)[1]
           p_l == Last(small)[2]
           g == Last(large)[1]
           p_g == Leftover(Last(large)[2], p_l)
       IN  /\ table' = Append(table, Aliased(p_l, l, g))
           /\ IF FLt(p_g, One)
              THEN /\ small' = Append(Pop(small), <<g, p_g>>)
                   /\ large' = Pop(large)
              ELSE /\ small' = Pop(small)
                   /\ large' = Append(Pop(large), <<g, p_g>>)
    /\ iters' = iters + 1
    /\ UNCHANGED <<arith, objs, ps, pc, range, float, it, last>>

(* Range::new(low, high) of the rand crate panics unless low < high *)
RangeNewPanics(low, high) == ~(low < high)

(* lines 125-134: flush large, then small, and build the sampling ranges *)
FromIterEnd ==
    /\ pc = "loop"
    /\ small = <<>> \/ large = <<>>
    /\ LET t == table \o Flush(large) \o Flush(small)
       IN  IF RangeNewPanics(0, Len(t))
           THEN /\ pc' = "panic"
                /\ UNCHANGED <<table, range, float>>
           ELSE /\ pc' = "ready"
                /\ table' = t
                /\ range' = <<0, Len(t)>>
                /\ float' = <<Zero, One>>
    /\ UNCHANGED <<arith, objs, ps, small, large, iters, it, last>>

(* ------------------------ the random source ---------------------------- *)
(* A random source is a deterministic generator: its state is a number,    *)
(* every draw reads the state and advances it.  The outputs are arranged   *)
(* so that every pair of an index and a float is drawn from some state.    *)
UVals == <<Zero, <<1, 2>>, <<3, 4>>>>
RngPeriod == MaxN * Len(UVals)
RngStates == 0..(RngPeriod - 1)
Adv(r) == (r + 1) % RngPeriod

(* self.range.ind_sample(rng) *)
SampleIndex(r) == range[1] + (r % (range[2] - range[1]))

(* self.float.ind_sample(rng) *)
SampleFloat(r) == UVals[((r \div MaxN) % Len(UVals)) + 1]

(* -------------------------- AliasTable::pick --------------------------- *)
(* variant: a float equal to the threshold resolves to the value *)
PickFromInclusive(r) ==
    LET idx == SampleIndex(r)
        entry == table[idx + 1]
        r1 == Adv(r)
    IN  IF entry.tag = "Aliased"
        THEN LET u == SampleFloat(r1)
             IN  [pre |-> r, idx |-> idx, u |-> <<u>>,
                  draws |-> <<"index", "float">>,
                  ret |-> IF ~FLt(entry.threshold, u)
                          THEN objs[entry.value + 1]
                          ELSE objs[entry.alias + 1],
                  post |-> Adv(r1)]
        ELSE [pre |-> r, idx |-> idx, u |-> <<>>,
              draws |-> <<"index">>,
              ret |-> objs[entry.idx + 1],
              post |-> r1]

(* variant: the float is drawn before the entry is inspected *)
PickFromEagerFloat(r) ==
    LET idx == SampleIndex(r)
        entry == table[idx + 1]
        r1 == Adv(r)
        u == SampleFloat(r1)
    IN  IF entry.tag = "Aliased"
        THEN [pre |-> r, idx |-> idx, u |-> <<u>>,
              draws |-> <<"index", "float">>,
              ret |-> IF FLt(u, entry.threshold)
                      THEN objs[entry.value + 1]
                      ELSE objs[entry.alias + 1],
              post |-> Adv(r1)]
        ELSE [pre |-> r, idx |-> idx, u |-> <<>>,
              draws |-> <<"index", "float">>,
              ret |-> objs[entry.idx + 1],
              post |-> Adv(r1)]

(* what pick does with a random source in state r: the slot, the draws it  *)
(* makes in order, the item it returns and the state it leaves             *)
PickFrom(r) ==
    LET idx == SampleIndex(r)
        entry == table[idx + 1]
        r1 == Adv(r)
    IN  IF entry.tag = "Aliased"
        THEN LET u == SampleFloat(r1)
             IN  [pre |-> r, idx |-> idx, u |-> <<u>>,
                  draws |-> <<"index", "float">>,
                  ret |-> IF FLt(u, entry.threshold)
                          THEN objs[entry.value + 1]
                          ELSE objs[entry.alias + 1],
                  post |-> Adv(r1)]
        ELSE [pre |-> r, idx |-> idx, u |-> <<>>,
              draws |-> <<"index">>,
              ret |-> objs[entry.idx + 1],
              post |-> r1]

NoPick == <<>>
NoIter == <<>>

(* variant: pick moves the entry it used to the back of the table *)
PickRotates(r) ==
    /\ pc = "ready"
    /\ last' = <<PickFrom(r)>>
    /\ table' = Tail(table) \o <<Head(table)>>
    /\ UNCHANGED <<arith, objs, ps, pc, small, large, iters, range, float, it>>

(* table.pick(&mut rng) with the caller's random source in state r *)
Pick(r) ==
    /\ pc = "ready"
    /\ last' = <<PickFrom(r)>>
    /\ UNCHANGED <<arith, objs, ps, pc, small, large, table, iters, range, float, it>>

(* table.iter(rng): the iterator takes the random source, in state seed;   *)
(* one iterator is followed per table                                      *)
Iter(seed) ==
    /\ pc = "ready"
    /\ it = NoIter
    /\ it' = <<[rng |-> seed, nexts |-> 0, picks |-> 0, draws |-> 0, got |-> <<>>]>>
    /\ UNCHANGED <<arith, objs, ps, pc, small, large, table, iters, range, float, last>>

(* AliasTableIterator::next: Some(self.table.pick(&mut self.rng)) *)
IterNext ==
    /\ pc = "ready"
    /\ it # NoIter
    /\ it[1].nexts < MaxTake
    /\ LET p == PickFrom(it[1].rng)
       IN  /\ last' = <<p>>
           /\ it' = <<[rng |-> p.post,
                       nexts |-> it[1].nexts + 1,
                       picks |-> it[1].picks + 1,
                       draws |-> it[1].draws + Len(p.draws),
                       got |-> <<p.ret>>]>>
    /\ UNCHANGED <<arith, objs, ps, pc, small, large, table, iters, range, float>>

(* ------------------------- the specification --------------------------- *)
Init ==
    /\ arith \in {"exact", "float"}
    /\ \E n \in 0..MaxN :
          /\ ps \in [1..n -> Weights]
          /\ objs = SubSeq(ItemNames, 1, n)
    /\ pc = "start"
    /\ small = <<>>
    /\ large = <<>>
    /\ table = <<>>
    /\ iters = 0
    /\ range = <<>>
    /\ float = <<>>
    /\ it = NoIter
    /\ last = NoPick

Next ==
    \/ FromIterBegin
    \/ PairStep
    \/ FromIterEnd
    \/ \E r \in RngStates : Pick(r)
    \/ \E seed \in RngStates : Iter(seed)
    \/ IterNext

Spec == Init /\ [][Next]_vars

(* ------------------------ vocabulary of the claims --------------------- *)
N == Len(ps)
Indices == 0..(N - 1)
AllZero == \A i \in 1..N : ps[i] = Zero
ValidInput == N >= 1 /\ ~AllZero
EqualPositive == N >= 1 /\ ps[1] # Zero /\ \A i \in 1..N : ps[i] = ps[1]
Built == pc = "ready"
Partitioned == pc \in {"loop", "ready"}

EntryIndices(e) == IF e.tag = "Aliased" THEN {e.value, e.alias} ELSE {e.idx}

RECURSIVE QSumSeq(_, _)
QSumSeq(f, k) == IF k = 0 THEN Zero ELSE QAdd(QSumSeq(f, k - 1), f[k])

(* the share of slot e that pick resolves to item i *)
SlotMass(e, i) ==
    IF e.tag = "Unaliased" THEN (IF e.idx = i THEN One ELSE Zero)
    ELSE QAdd(IF e.value = i THEN e.threshold ELSE Zero,
              IF e.alias = i THEN QSub(One, e.threshold) ELSE Zero)

(* N times the probability that pick returns item i *)
Mass(i) == QSumSeq([s \in 1..Len(table) |-> SlotMass(table[s], i)], Len(table))

(* N * w_i / sum(w) in exact arithmetic *)
Share(i) == QDiv(QMul(<<N, 1>>, ps[i + 1]), QSumSeq(ps, N))

InUnit(p) == IsFinite(p) /\ ~QLt(p, Zero) /\ QLt(p, One)
AtLeastOne(p) == p = Inf \/ (IsFinite(p) /\ ~QLt(p, One))

(* ------------------------------- C1 ------------------------------------ *)
(* C1: for every input of length N >= 1 whose weights are not all zero,    *)
(* the table from_iter returns has exactly N entries and every index in    *)
(* any entry lies in [0, N).                                               *)
C1_TableShape ==
    (Built /\ ValidInput) =>
        /\ Len(table) = N
        /\ \A s \in 1..Len(table) : EntryIndices(table[s]) \subseteq Indices

C1_Witness ==
    /\ Built /\ ValidInput /\ N = MaxN
    /\ \E s \in 1..Len(table) : table[s].tag = "Aliased"
    /\ \E s \in 1..Len(table) : table[s].tag = "Unaliased"

(* ------------------------------- C2 ------------------------------------ *)
(* C2: in exact arithmetic, for every input of length N >= 1 with positive *)
(* sum, the slots of the table give item i the total mass N * w_i / sum(w),*)
(* so pick returns item i with probability w_i / sum(w).                   *)
C2_MassPreserved ==
    (Built /\ ValidInput /\ arith = "exact") =>
        \A i \in Indices : Mass(i) = Share(i)

C2_Witness ==
    /\ Built /\ ValidInput /\ arith = "exact" /\ iters >= 2
    /\ \E i \in Indices : Mass(i) # One /\ Mass(i) # Zero

(* ------------------------------- C3 ------------------------------------ *)
(* C3: whenever the total weight is zero (the input is empty or all its    *)
(* weights are zero) from_iter fails and never returns a table.            *)
C3_ZeroSumFails == AllZero => ~Built

(* ------------------------------- C4 ------------------------------------ *)
(* C4: pick returns items[i] when the drawn slot is Unaliased(i); when it  *)
(* is Aliased it returns items[value] if the drawn float is below the      *)
(* threshold and items[alias] otherwise, a float equal to the threshold    *)
(* included.                                                               *)
C4_PickResolves ==
    (Built /\ last # NoPick) =>
        LET p == last[1]
            e == table[p.idx + 1]
        IN  /\ p.idx \in Indices
            /\ e.tag = "Unaliased" => p.ret = objs[e.idx + 1]
            /\ e.tag = "Aliased" =>
                  /\ Len(p.u) = 1
                  /\ InUnit(p.u[1])
                  /\ QLt(p.u[1], e.threshold) => p.ret = objs[e.value + 1]
                  /\ ~QLt(p.u[1], e.threshold) => p.ret = objs[e.alias + 1]

C4_Witness ==
    /\ Built /\ last # NoPick
    /\ LET p == last[1]
           e == table[p.idx + 1]
       IN  /\ e.tag = "Aliased"
           /\ e.value # e.alias
           /\ p.u = <<e.threshold>>
           /\ p.ret = objs[e.alias + 1]

(* ------------------------------- C5 ------------------------------------ *)
(* C5: no call of pick or next changes the table entries, the item list or *)
(* the sampling ranges; a pick made with the random source in the state of *)
(* the previous pick returns the same item and leaves the same state.      *)
C5_PickIsReadOnly ==
    [][Built =>
          /\ table' = table /\ objs' = objs /\ range' = range /\ float' = float
          /\ (last # NoPick /\ last' # NoPick /\ last'[1].pre = last[1].pre)
                => (last'[1].ret = last[1].ret /\ last'[1].post = last[1].post)
          /\ (last # NoPick => last[1].ret = PickFrom(last[1].pre).ret)']_vars

C5_Witness ==
    /\ Built /\ last # NoPick /\ it # NoIter
    /\ it[1].nexts = MaxTake
    /\ last[1].post # it[1].rng
    /\ \E s \in 1..Len(table) : table[s].tag = "Aliased"

(* ------------------------------- C6 ------------------------------------ *)
(* C6: next always returns Some item and can always be called again; K     *)
(* calls of next make exactly K calls of pick, each drawing one index and  *)
(* then one float only when the slot is Aliased, so between K and 2K draws.*)
C6_IteratorDraws ==
    /\ (Built /\ it # NoIter) =>
          /\ it[1].picks = it[1].nexts
          /\ it[1].nexts <= it[1].draws
          /\ it[1].draws <= 2 * it[1].nexts
          /\ it[1].nexts > 0 => Len(it[1].got) = 1
          /\ it[1].nexts < MaxTake => ENABLED IterNext
    /\ (Built /\ last # NoPick) =>
          last[1].draws = IF table[last[1].idx + 1].tag = "Aliased"
                          THEN <<"index", "float">> ELSE <<"index">>

C6_Witness ==
    /\ Built /\ it # NoIter
    /\ it[1].nexts = MaxTake
    /\ it[1].draws = 2 * MaxTake
    /\ it[1].got = <<last[1].ret>>

(* ------------------------------- C7 ------------------------------------ *)
Probabilities == {small[k][2] : k \in 1..Len(small)} \cup {large[k][2] : k \in 1..Len(large)}

AllUnaliasedOnce ==
    /\ Len(table) = N
    /\ \A s \in 1..Len(table) : table[s].tag = "Unaliased"
    /\ \A i \in Indices : Cardinality({s \in 1..Len(table) : table[s] = Unaliased(i)}) = 1

(* C7 as stated: for every input of N >= 1 equal positive weights, every   *)
(* scaled probability is exactly 1, the pairing loop never runs, the table *)
(* is N Unaliased entries with each index once, and [Unaliased(0)] for     *)
(* N = 1.                                                                  *)
C7_EqualWeightsExactlyOne ==
    (EqualPositive /\ Partitioned) =>
        /\ Probabilities = {One}
        /\ iters = 0
        /\ Built => AllUnaliasedOnce
        /\ (Built /\ N = 1) => table = <<Unaliased(0)>>

(* C7 as amended: for every input of N >= 1 equal positive weights the     *)
(* scaled probabilities are all the same value, which is exactly 1 in      *)
(* exact arithmetic; the pairing loop never runs, the table is N Unaliased *)
(* entries with each index once, and [Unaliased(0)] for N = 1.             *)
C7_EqualWeightsUnaliased ==
    (EqualPositive /\ Partitioned) =>
        /\ Cardinality(Probabilities) = 1
        /\ arith = "exact" => Probabilities = {One}
        /\ small = <<>> \/ large = <<>>
        /\ iters = 0
        /\ Built => AllUnaliasedOnce
        /\ (Built /\ N = 1) => table = <<Unaliased(0)>>

C7_Witness ==
    /\ EqualPositive /\ Built /\ N = MaxN /\ arith = "float"
    /\ \E p \in Probabilities : IsFinite(p) /\ p # One
    /\ AllUnaliasedOnce

(* ------------------------------- C8 ------------------------------------ *)
(* C8: in exact arithmetic a two-item input with w_light < w_heavy, in     *)
(* either order, gives exactly [Aliased{2 w_light / (w_light + w_heavy),   *)
(* light, heavy}, Unaliased(heavy)], the leftover mass of the heavy item   *)
(* being exactly 1; weights [1, 3] give [Aliased{0.5, 0, 1}, Unaliased(1)].*)
C8_TwoItemSkew ==
    (Built /\ arith = "exact" /\ N = 2 /\ ps[1] # ps[2]) =>
        LET light == IF QLt(ps[1], ps[2]) THEN 0 ELSE 1
            heavy == 1 - light
            thr == QDiv(QMul(<<2, 1>>, ps[light + 1]), QAdd(ps[1], ps[2]))
        IN  /\ table = <<Aliased(thr, light, heavy), Unaliased(heavy)>>
            /\ iters = 1
            /\ small = <<>>
            /\ large = <<<<heavy, One>>>>
            /\ ps = <<One, <<3, 1>>>> =>
                  table = <<Aliased(<<1, 2>>, 0, 1), Unaliased(1)>>

C8_Witness ==
    /\ Built /\ arith = "exact"
    /\ ps = <<<<3, 1>>, One>>
    /\ table = <<Aliased(<<1, 2>>, 1, 0), Unaliased(0)>>

(* ------------------------------- C9 ------------------------------------ *)
(* C9: for every input with positive sum, every probability held in small  *)
(* is in [0, 1), every probability held in large is >= 1, the re-inserted  *)
(* leftovers included, and so every Aliased threshold is in [0, 1).        *)
C9_StackRanges ==
    (ValidInput /\ Partitioned) =>
        /\ \A k \in 1..Len(small) : InUnit(small[k][2])
        /\ \A k \in 1..Len(large) : AtLeastOne(large[k][2])
        /\ \A s \in 1..Len(table) :
              table[s].tag = "Aliased" => InUnit(table[s].threshold)

(* ------------------------------- C10 ----------------------------------- *)
(* C10: construction terminates: every iteration of the pairing loop adds  *)
(* one entry and shrinks |small| + |large| by exactly one, the loop runs   *)
(* at most N - 1 times, and when it stops every index left in large and in *)
(* small becomes an Unaliased entry, whatever its probability.             *)
C10_LoopTerminates ==
    [][/\ iters' = iters + 1 =>
             /\ Len(small) >= 1 /\ Len(large) >= 1
             /\ Len(small') + Len(large') = Len(small) + Len(large) - 1
             /\ Len(table') = Len(table) + 1
       /\ iters' <= (IF N = 0 THEN 0 ELSE N - 1)
       /\ iters' + Len(small') + Len(large') = (IF pc' = "start" THEN 0 ELSE N)
       /\ (pc = "loop" /\ pc' # "loop") =>
             /\ pc' = (IF N = 0 THEN "panic" ELSE "ready")
             /\ pc' = "ready" =>
                   /\ Len(table') = Len(table) + Len(large) + Len(small)
                   /\ \A k \in 1..Len(table) : table'[k] = table[k]
                   /\ \A k \in 1..Len(large) :
                         table'[Len(table) + k] = [tag |-> "Unaliased", idx |-> large[k][1]]
                   /\ \A k \in 1..Len(small) :
                         table'[Len(table) + Len(large) + k] =
                             [tag |-> "Unaliased", idx |-> small[k][1]]]_vars

C10_Witness ==
    /\ Built /\ N = MaxN /\ iters = N - 1
    /\ table[N].tag = "Unaliased"

====
